---- MODULE Spec2Model ----
(***************************************************************************)
(* Model of src/services/npmScraper.py: the NpmScraper pipeline            *)
(* (search_and_enrich: paginated discovery, partition of the tasks over a  *)
(* thread pool, lock-protected appends to self.results, sort_results) and  *)
(* the retry loop of make_request.                                         *)
(*                                                                         *)
(* Five specifications share the variables:                                *)
(*   Spec       one run of search_and_enrich on a fresh NpmScraper;        *)
(*   FetchSpec  one call of make_request, one loop iteration per step;     *)
(*   SortSpec   sort_results applied to an arbitrary result store;         *)
(*   PoolSpec   a run from the end of discovery on: partition, thread pool, *)
(*              sort, for task counts that leave a remainder;              *)
(*   RerunSpec  two calls of search_and_enrich on the same NpmScraper.     *)
(*                                                                         *)
(* Data the code only copies from the source into the entity (version,     *)
(* description, author, license, monthly downloads, links, keywords,       *)
(* scores) is left out; the fields the code branches or sorts on are kept. *)
(* The source is assumed to return well-typed JSON values: a field is      *)
(* either absent or has the type the code expects.                         *)
(***************************************************************************)
EXTENDS Integers, Sequences, FiniteSets, TLC

\* ---- bounds of the model ------------------------------------------------
MaxPages == 3        \* largest page limit (max_pages) a run is started with
MaxPageLen == 2      \* most packages the source returns on one search page
MaxTasks == 2        \* most packages the source returns over a whole run
MaxThreads == 2      \* largest worker count (self.threads)
MaxSortLen == 3      \* longest result store sort_results is applied to in SortSpec
MaxPoolTasks == 3    \* most tasks handed to the partition step in PoolSpec
MaxPoolThreads == 2  \* largest worker count in PoolSpec
MaxCalls == 2        \* calls of search_and_enrich on one NpmScraper in RerunSpec

\* ---- program constants --------------------------------------------------
MAX_RETRIES == 3
BIG_SLEEP == 2
MEDIUM_SLEEP == 1
STATUS_OK == 200
STATUS_RATE_LIMITED == 429
\* session.get raised requests.exceptions.RequestException: there is no status
TransportError == 0

\* what one attempt of make_request can observe
Statuses == {STATUS_OK, STATUS_RATE_LIMITED, 404, 500, TransportError}

VARIABLES
    \* RunConfig
    threads,          \* self.threads
    max_pages,        \* argument max_pages
    sort_by,          \* argument sort_by
    calls,            \* which call of search_and_enrich on this scraper this is
    \* coordinator (search_and_enrich)
    pc,               \* "INIT", "DISCOVERING", "DISTRIBUTE", "ENRICHING", "AGGREGATING", "DONE", "RAISED"
    error,            \* the exception that left search_and_enrich, or "none"
    page,             \* the loop variable page; 0 while it is unbound
    all_packages,     \* all_packages
    fetched,          \* history: the page numbers search_packages was called with
    page_results,     \* history: what each of those calls returned
    tasks,            \* tasks
    task_chunks,      \* task_chunks
    \* workers (worker_thread), one per submitted chunk
    chunk_state,      \* "queued", "running", "done"
    idx,              \* position of the for loop in the chunk (1-based)
    wpc,              \* "fetch", "lock", "append"
    npm_package,      \* the local npm_package built for the current task
    lock,             \* self.lock: 0 when free, else the chunk whose worker holds it
    detail_outcome,   \* history: per task, what enriching it met
    attempt_log,      \* history: per chunk, the ids of the tasks its try block was entered for
    pacing,           \* history: per chunk, the number of pacing sleeps (line 218) taken
    \* shared result store
    results,          \* self.results
    appended,         \* history: self.results as sort_results found it
    \* one make_request call
    mr_pc,            \* "idle", "loop", "returned"
    mr_attempt,       \* the loop variable attempt (0-based)
    mr_statuses,      \* history: the status each request of the call received
    mr_sleeps,        \* history: the sleeps the call took, in order
    mr_events,        \* history: the call's requests and sleeps, in order
    mr_response       \* "pending", "response", "none"

cfg_vars == <<threads, max_pages, sort_by, calls>>
coord_vars == <<pc, error, page, all_packages, fetched, page_results, tasks, task_chunks>>
worker_vars == <<chunk_state, idx, wpc, npm_package, lock, detail_outcome, attempt_log, pacing>>
store_vars == <<results, appended>>
mr_vars == <<mr_pc, mr_attempt, mr_statuses, mr_sleeps, mr_events, mr_response>>
vars == <<cfg_vars, coord_vars, worker_vars, store_vars, mr_vars>>

\* ---- helpers --------------------------------------------------------------
\* dict.get(k, default)
Get(d, k, default) == IF k \in DOMAIN d THEN d[k] ELSE default

Min(a, b) == IF a <= b THEN a ELSE b

RECURSIVE Flatten(_)
Flatten(ss) == IF ss = <<>> THEN <<>> ELSE Head(ss) \o Flatten(Tail(ss))

\* all sequences over S of length 0..n
SeqsUpTo(S, n) == UNION {[1..k -> S] : k \in 0..n}

\* ==========================================================================
\* make_request
\* ==========================================================================

\* One iteration of the for loop of make_request: the request got `status` on
\* iteration `attempt` (0-based) of `retries`.  ctl is "return" (return response)
\* or "next" (the loop goes on to its next iteration); sleep is the sequence of
\* sleeps the iteration takes.
attempt_body_no_backoff_growth(status, attempt, retries) ==
    CASE status = STATUS_OK -> [ctl |-> "return", sleep |-> <<>>]
      [] status = STATUS_RATE_LIMITED -> [ctl |-> "next", sleep |-> <<BIG_SLEEP>>]
      [] status = TransportError ->
            [ctl |-> "next",
             sleep |-> IF attempt < retries - 1 THEN <<MEDIUM_SLEEP>> ELSE <<>>]
      [] OTHER -> [ctl |-> "next", sleep |-> <<>>]

\* attempt_body sleeping after a transport error on the last attempt too
attempt_body_sleeps_after_last_error(status, attempt, retries) ==
    CASE status = STATUS_OK -> [ctl |-> "return", sleep |-> <<>>]
      [] status = STATUS_RATE_LIMITED ->
            [ctl |-> "next", sleep |-> <<BIG_SLEEP * (attempt + 1)>>]
      [] status = TransportError ->
            [ctl |-> "next", sleep |-> <<MEDIUM_SLEEP * (attempt + 1)>>]
      [] OTHER -> [ctl |-> "next", sleep |-> <<>>]

attempt_body(status, attempt, retries) ==
    CASE status = STATUS_OK -> [ctl |-> "return", sleep |-> <<>>]
      [] status = STATUS_RATE_LIMITED ->
            [ctl |-> "next", sleep |-> <<BIG_SLEEP * (attempt + 1)>>]
      [] status = TransportError ->
            [ctl |-> "next",
             sleep |-> IF attempt < retries - 1
                       THEN <<MEDIUM_SLEEP * (attempt + 1)>> ELSE <<>>]
      [] OTHER -> [ctl |-> "next", sleep |-> <<>>]

\* The whole call, for the statuses `script` the successive requests receive:
\* TRUE when it returns a response, FALSE when it returns None.
RECURSIVE make_request_from(_, _, _)
make_request_from(script, attempt, retries) ==
    IF attempt >= retries THEN FALSE
    ELSE IF attempt_body(script[attempt + 1], attempt, retries).ctl = "return" THEN TRUE
    ELSE make_request_from(script, attempt + 1, retries)

make_request(script) == make_request_from(script, 0, MAX_RETRIES)

\* the values make_request can return to its callers (TRUE: a response)
FetchOutcomes == {make_request(s) : s \in [1..MAX_RETRIES -> Statuses]}

\* -- the call as a state machine ------------------------------------------
MR_Attempt ==
    /\ mr_pc = "loop"
    /\ mr_attempt < MAX_RETRIES
    /\ \E status \in Statuses :
         LET b == attempt_body(status, mr_attempt, MAX_RETRIES) IN
         /\ mr_statuses' = Append(mr_statuses, status)
         /\ mr_sleeps' = mr_sleeps \o b.sleep
         /\ mr_events' = mr_events \o <<"request">> \o [i \in DOMAIN b.sleep |-> "sleep"]
         /\ IF b.ctl = "return"
            THEN /\ mr_pc' = "returned"
                 /\ mr_response' = "response"
                 /\ mr_attempt' = mr_attempt
            ELSE /\ mr_attempt' = mr_attempt + 1
                 /\ UNCHANGED <<mr_pc, mr_response>>
    /\ UNCHANGED <<cfg_vars, coord_vars, worker_vars, store_vars>>

\* the for loop is exhausted: return None
MR_Exhausted ==
    /\ mr_pc = "loop"
    /\ mr_attempt >= MAX_RETRIES
    /\ mr_pc' = "returned"
    /\ mr_response' = "none"
    /\ UNCHANGED <<mr_attempt, mr_statuses, mr_sleeps, mr_events>>
    /\ UNCHANGED <<cfg_vars, coord_vars, worker_vars, store_vars>>

\* ==========================================================================
\* the source (npmjs.com) and the extractors
\* ==========================================================================

\* pkg_data objects the search page's JSON can carry: any field may be missing.
\* weekly stands for downloads.weekly; a date is a string, written as the
\* sequence of its characters' codes ("9" is <<9>>, "10" is <<1, 0>>).
SourcePackages ==
    { [name |-> "a", weekly |-> 5, dependents |-> 1, date |-> <<9>>],
      [weekly |-> 7, date |-> <<1, 0>>] }

\* response.text of a search page: the __INITIAL_STATE__ block is absent, is
\* not JSON, or parses to a packages list of at most `room` entries
SearchPages(room) ==
    { [blob |-> "absent", packages |-> <<>>], [blob |-> "malformed", packages |-> <<>>] }
    \cup { [blob |-> "ok", packages |-> s] : s \in SeqsUpTo(SourcePackages, Min(MaxPageLen, room)) }

\* response.text of a package page: the markers it carries, with their values
DetailPages ==
    { <<>>, [unpackedSize |-> 50, fileCount |-> 3] }

\* the dict built per pkg_data
package_info(pkg_data) ==
    [name |-> Get(pkg_data, "name", ""),
     downloads_weekly |-> Get(pkg_data, "weekly", 0),
     dependents |-> Get(pkg_data, "dependents", 0),
     last_publish |-> Get(pkg_data, "date", <<>>)]

extract_package_from_search_page(html) ==
    IF html.blob = "ok"
    THEN [i \in 1..Len(html.packages) |-> package_info(html.packages[i])]
    ELSE <<>>

\* search_packages, given what make_request returned and the page it got
search_packages(response, html) ==
    IF ~response THEN <<>> ELSE extract_package_from_search_page(html)

\* get_package_details: none is TRUE for None, else fields is the details dict
get_package_details(response, html) ==
    IF ~response THEN [none |-> TRUE, fields |-> <<>>]
    ELSE [none |-> FALSE,
          fields |-> [k \in {f \in {"size", "files"} :
                               (IF f = "size" THEN "unpackedSize" ELSE "fileCount") \in DOMAIN html}
                        |-> IF k = "size" THEN html.unpackedSize ELSE html.fileCount]]

\* ==========================================================================
\* sort_results
\* ==========================================================================
SortKeys == {"relevance", "size", "date", "downloads", "dependents", "name"}

\* str < str in Python: lexicographic by character
RECURSIVE LexLess(_, _)
LexLess(a, b) ==
    IF b = <<>> THEN FALSE
    ELSE IF a = <<>> THEN TRUE
    ELSE IF Head(a) # Head(b) THEN Head(a) < Head(b)
    ELSE LexLess(Tail(a), Tail(b))

\* key(x) < key(y) for the key function sort_results uses for sort_by
KeyLess(x, y, key) ==
    CASE key = "size" -> x.size < y.size
      [] key = "date" -> LexLess(x.last_publish, y.last_publish)
      [] key = "downloads" -> x.downloads_weekly < y.downloads_weekly
      [] key = "dependents" -> x.dependents < y.dependents

\* InsertDesc placing an entity before the entities of equal key
RECURSIVE InsertDesc_before_equal(_, _, _)
InsertDesc_before_equal(x, s, key) ==
    IF s = <<>> THEN <<x>>
    ELSE IF ~KeyLess(x, Head(s), key) THEN <<x>> \o s
    ELSE <<Head(s)>> \o InsertDesc_before_equal(x, Tail(s), key)

\* list.sort(key=..., reverse=True): descending, equal keys keep their order
RECURSIVE InsertDesc(_, _, _)
InsertDesc(x, s, key) ==
    IF s = <<>> THEN <<x>>
    ELSE IF KeyLess(Head(s), x, key) THEN <<x>> \o s
    ELSE <<Head(s)>> \o InsertDesc(x, Tail(s), key)

RECURSIVE SortDescFrom(_, _, _)
SortDescFrom(rs, sorted, key) ==
    IF rs = <<>> THEN sorted
    ELSE SortDescFrom(Tail(rs), InsertDesc(Head(rs), sorted, key), key)

sort_results(rs, key) ==
    IF key \in {"size", "date", "downloads", "dependents"}
    THEN SortDescFrom(rs, <<>>, key)
    ELSE rs

\* ==========================================================================
\* search_and_enrich: the coordinator
\* ==========================================================================
NoPackage ==
    [id |-> 0, name |-> "", size |-> 0, files |-> 0, downloads_weekly |-> 0,
     dependents |-> 0, last_publish |-> <<>>]

\* lines 229-233
StartRun ==
    /\ pc = "INIT"
    /\ pc' = "DISCOVERING"
    /\ all_packages' = <<>>
    /\ UNCHANGED <<error, page, fetched, page_results, tasks, task_chunks>>
    /\ UNCHANGED <<cfg_vars, worker_vars, store_vars, mr_vars>>

\* after_page without the break
after_page_no_break(packages) == "DISCOVERING"

\* where the loop goes after a page: `if not packages: break`
after_page(packages) == IF packages = <<>> THEN "DISTRIBUTE" ELSE "DISCOVERING"

\* one iteration of `for page in range(1, max_pages + 1)`
SearchPage ==
    /\ pc = "DISCOVERING"
    /\ page < max_pages
    /\ \E response \in FetchOutcomes, html \in SearchPages(MaxTasks - Len(all_packages)) :
         LET packages == search_packages(response, html) IN
         /\ page' = page + 1
         /\ fetched' = Append(fetched, page + 1)
         /\ page_results' = Append(page_results, packages)
         /\ all_packages' = all_packages \o packages
         /\ pc' = after_page(packages)
    /\ UNCHANGED <<error, tasks, task_chunks>>
    /\ UNCHANGED <<cfg_vars, worker_vars, store_vars, mr_vars>>

\* range(1, max_pages + 1) is exhausted
LoopExhausted ==
    /\ pc = "DISCOVERING"
    /\ page >= max_pages
    /\ pc' = "DISTRIBUTE"
    /\ UNCHANGED <<error, page, all_packages, fetched, page_results, tasks, task_chunks>>
    /\ UNCHANGED <<cfg_vars, worker_vars, store_vars, mr_vars>>

\* Step 2: one task per discovered package; id is the task's discovery index
\* (the identity of the dict object)
make_tasks(packages) ==
    [i \in 1..Len(packages) |-> [type |-> "enrich_package", package |-> packages[i], id |-> i]]

chunk_size(ts, w) == Len(ts) \div w

\* chunks_of with the slice one too long: tasks[i:i + chunk_size + 1]
chunks_of_overlapping(ts, cs) ==
    [j \in 1..((Len(ts) + cs - 1) \div cs) |->
        SubSeq(ts, (j - 1) * cs + 1, Min(j * cs + 1, Len(ts)))]

\* [tasks[i:i + chunk_size] for i in range(0, len(tasks), chunk_size)], chunk_size > 0
chunks_of(ts, cs) ==
    [j \in 1..((Len(ts) + cs - 1) \div cs) |->
        SubSeq(ts, (j - 1) * cs + 1, Min(j * cs, Len(ts)))]

\* lines 244-260: report, build the tasks, partition them, submit the chunks
Distribute ==
    /\ pc = "DISTRIBUTE"
    /\ IF page = 0
       THEN \* line 244 reads page, which the loop never bound
            /\ pc' = "RAISED"
            /\ error' = "UnboundLocalError"
            /\ UNCHANGED <<tasks, task_chunks, worker_vars>>
       ELSE LET ts == make_tasks(all_packages)
                cs == chunk_size(ts, threads) IN
            /\ tasks' = ts
            /\ IF cs = 0
               THEN \* range() arg 3 must not be zero
                    /\ pc' = "RAISED"
                    /\ error' = "ValueError"
                    /\ UNCHANGED <<task_chunks, worker_vars>>
               ELSE LET chunks == chunks_of(ts, cs) IN
                    /\ task_chunks' = chunks
                    /\ chunk_state' = [c \in DOMAIN chunks |-> "queued"]
                    /\ idx' = [c \in DOMAIN chunks |-> 1]
                    /\ wpc' = [c \in DOMAIN chunks |-> "fetch"]
                    /\ npm_package' = [c \in DOMAIN chunks |-> NoPackage]
                    /\ detail_outcome' = [t \in DOMAIN ts |-> "pending"]
                    /\ attempt_log' = [c \in DOMAIN chunks |-> <<>>]
                    /\ pacing' = [c \in DOMAIN chunks |-> 0]
                    /\ pc' = "ENRICHING"
                    /\ UNCHANGED <<error, lock>>
    /\ UNCHANGED <<page, all_packages, fetched, page_results>>
    /\ UNCHANGED <<cfg_vars, store_vars, mr_vars>>

\* ==========================================================================
\* worker_thread, run by the ThreadPoolExecutor
\* ==========================================================================
Running == {c \in DOMAIN chunk_state : chunk_state[c] = "running"}

\* StartChunk with a thread per submitted chunk, whatever max_workers is
StartChunk_unbounded(c) ==
    /\ chunk_state[c] = "queued"
    /\ \A d \in 1..(c - 1) : chunk_state[d] # "queued"
    /\ chunk_state' = [chunk_state EXCEPT ![c] = "running"]
    /\ UNCHANGED <<idx, wpc, npm_package, lock, detail_outcome, attempt_log, pacing>>
    /\ UNCHANGED <<cfg_vars, coord_vars, store_vars, mr_vars>>

\* a pool thread takes the next submitted chunk: at most self.threads run.
\* The workers run on their own threads: their steps do not look at where the
\* coordinator is.
StartChunk(c) ==
    /\ chunk_state[c] = "queued"
    /\ \A d \in 1..(c - 1) : chunk_state[d] # "queued"
    /\ Cardinality(Running) < threads
    /\ chunk_state' = [chunk_state EXCEPT ![c] = "running"]
    /\ UNCHANGED <<idx, wpc, npm_package, lock, detail_outcome, attempt_log, pacing>>
    /\ UNCHANGED <<cfg_vars, coord_vars, store_vars, mr_vars>>

\* lines 189-207 after `if details: package_data.update(details)`
build_package(task, details) ==
    LET package_data == IF ~details.none /\ DOMAIN details.fields # {}
                        THEN details.fields @@ task.package
                        ELSE task.package IN
    [id |-> task.id,
     name |-> Get(package_data, "name", ""),
     size |-> Get(package_data, "size", 0),
     files |-> Get(package_data, "files", 0),
     downloads_weekly |-> Get(package_data, "downloads_weekly", 0),
     dependents |-> Get(package_data, "dependents", 0),
     last_publish |-> Get(package_data, "last_publish", <<>>)]

\* the for loop moves to its next task after the pacing sleep, or ends
NextTask(c) ==
    /\ idx' = [idx EXCEPT ![c] = @ + 1]
    /\ pacing' = [pacing EXCEPT ![c] = @ + 1]
    /\ wpc' = [wpc EXCEPT ![c] = "fetch"]
    /\ chunk_state' = [chunk_state EXCEPT
                          ![c] = IF idx[c] >= Len(task_chunks[c]) THEN "done" ELSE @]

\* Enrich skipping the task when get_package_details returned None
Enrich_skips_failed_detail(c) ==
    /\ chunk_state[c] = "running"
    /\ wpc[c] = "fetch"
    /\ LET task == task_chunks[c][idx[c]] IN
       \E response \in FetchOutcomes, html \in DetailPages :
         LET details == get_package_details(response, html) IN
         /\ detail_outcome' = [detail_outcome EXCEPT
                                  ![task.id] = IF details.none THEN "none" ELSE "details"]
         /\ IF details.none
            THEN NextTask(c) /\ UNCHANGED npm_package
            ELSE /\ npm_package' = [npm_package EXCEPT ![c] = build_package(task, details)]
                 /\ wpc' = [wpc EXCEPT ![c] = "lock"]
                 /\ UNCHANGED <<chunk_state, idx, pacing>>
    /\ attempt_log' = [attempt_log EXCEPT ![c] = Append(@, task_chunks[c][idx[c]].id)]
    /\ UNCHANGED lock
    /\ UNCHANGED <<cfg_vars, coord_vars, store_vars, mr_vars>>

\* lines 181-207: fetch the details and build the entity
Enrich(c) ==
    /\ chunk_state[c] = "running"
    /\ wpc[c] = "fetch"
    /\ LET task == task_chunks[c][idx[c]] IN
       \E response \in FetchOutcomes, html \in DetailPages :
         LET details == get_package_details(response, html) IN
         /\ npm_package' = [npm_package EXCEPT ![c] = build_package(task, details)]
         /\ detail_outcome' = [detail_outcome EXCEPT
                                  ![task.id] = IF details.none THEN "none" ELSE "details"]
    /\ wpc' = [wpc EXCEPT ![c] = "lock"]
    /\ attempt_log' = [attempt_log EXCEPT ![c] = Append(@, task_chunks[c][idx[c]].id)]
    /\ UNCHANGED <<chunk_state, idx, lock, pacing>>
    /\ UNCHANGED <<cfg_vars, coord_vars, store_vars, mr_vars>>

\* EnrichRaises with the exception leaving the for loop: the worker ends
EnrichRaises_aborts_worker(c) ==
    /\ chunk_state[c] = "running"
    /\ wpc[c] = "fetch"
    /\ detail_outcome' = [detail_outcome EXCEPT ![task_chunks[c][idx[c]].id] = "raised"]
    /\ attempt_log' = [attempt_log EXCEPT ![c] = Append(@, task_chunks[c][idx[c]].id)]
    /\ chunk_state' = [chunk_state EXCEPT ![c] = "done"]
    /\ UNCHANGED <<idx, wpc, pacing, npm_package, lock>>
    /\ UNCHANGED <<cfg_vars, coord_vars, store_vars, mr_vars>>

\* lines 214-218: the try body raised; the task is logged and skipped
EnrichRaises(c) ==
    /\ chunk_state[c] = "running"
    /\ wpc[c] = "fetch"
    /\ detail_outcome' = [detail_outcome EXCEPT ![task_chunks[c][idx[c]].id] = "raised"]
    /\ attempt_log' = [attempt_log EXCEPT ![c] = Append(@, task_chunks[c][idx[c]].id)]
    /\ NextTask(c)
    /\ UNCHANGED <<npm_package, lock>>
    /\ UNCHANGED <<cfg_vars, coord_vars, store_vars, mr_vars>>

\* AcquireLock entering the block without waiting for the lock
AcquireLock_no_wait(c) ==
    /\ chunk_state[c] = "running"
    /\ wpc[c] = "lock"
    /\ lock' = c
    /\ wpc' = [wpc EXCEPT ![c] = "append"]
    /\ UNCHANGED <<chunk_state, idx, npm_package, detail_outcome, attempt_log, pacing>>
    /\ UNCHANGED <<cfg_vars, coord_vars, store_vars, mr_vars>>

\* `with self.lock:` entered
AcquireLock(c) ==
    /\ chunk_state[c] = "running"
    /\ wpc[c] = "lock"
    /\ lock = 0
    /\ lock' = c
    /\ wpc' = [wpc EXCEPT ![c] = "append"]
    /\ UNCHANGED <<chunk_state, idx, npm_package, detail_outcome, attempt_log, pacing>>
    /\ UNCHANGED <<cfg_vars, coord_vars, store_vars, mr_vars>>

\* self.results.append(npm_package), the lock released, the pacing sleep
AppendResult(c) ==
    /\ chunk_state[c] = "running"
    /\ wpc[c] = "append"
    /\ results' = Append(results, npm_package[c])
    /\ lock' = 0
    /\ NextTask(c)
    /\ UNCHANGED <<npm_package, detail_outcome, attempt_log, appended>>
    /\ UNCHANGED <<cfg_vars, coord_vars, mr_vars>>

\* JoinWorkers going on while workers still run
JoinWorkers_no_wait ==
    /\ pc = "ENRICHING"
    /\ pc' = "AGGREGATING"
    /\ UNCHANGED <<error, page, all_packages, fetched, page_results, tasks, task_chunks>>
    /\ UNCHANGED <<cfg_vars, worker_vars, store_vars, mr_vars>>

\* the with block of the executor ends: every worker has finished
JoinWorkers ==
    /\ pc = "ENRICHING"
    /\ \A c \in DOMAIN chunk_state : chunk_state[c] = "done"
    /\ pc' = "AGGREGATING"
    /\ UNCHANGED <<error, page, all_packages, fetched, page_results, tasks, task_chunks>>
    /\ UNCHANGED <<cfg_vars, worker_vars, store_vars, mr_vars>>

\* lines 268-272: sort_results(sort_by), return self.results
SortResults ==
    /\ pc = "AGGREGATING"
    /\ appended' = results
    /\ results' = sort_results(results, sort_by)
    /\ pc' = "DONE"
    /\ UNCHANGED <<error, page, all_packages, fetched, page_results, tasks, task_chunks>>
    /\ UNCHANGED <<cfg_vars, worker_vars, mr_vars>>

\* search_and_enrich is called again on the same object: the locals of the
\* call start afresh; self.results is assigned in __init__ only (line 63) and
\* nothing in search_and_enrich resets it.
CallAgain ==
    /\ pc = "DONE"
    /\ calls < MaxCalls
    /\ calls' = calls + 1
    /\ pc' = "INIT"
    /\ page' = 0
    /\ all_packages' = <<>>
    /\ fetched' = <<>>
    /\ page_results' = <<>>
    /\ tasks' = <<>>
    /\ task_chunks' = <<>>
    /\ chunk_state' = <<>>
    /\ idx' = <<>>
    /\ wpc' = <<>>
    /\ npm_package' = <<>>
    /\ detail_outcome' = <<>>
    /\ attempt_log' = <<>>
    /\ pacing' = <<>>
    /\ appended' = <<>>
    /\ UNCHANGED <<threads, max_pages, sort_by, error, lock, results, mr_vars>>

\* ==========================================================================
\* specifications
\* ==========================================================================
\* the state of a freshly constructed NpmScraper, no call in progress
Fresh ==
    /\ calls = 1
    /\ pc = "INIT"
    /\ error = "none"
    /\ page = 0
    /\ all_packages = <<>>
    /\ fetched = <<>>
    /\ page_results = <<>>
    /\ tasks = <<>>
    /\ task_chunks = <<>>
    /\ chunk_state = <<>>
    /\ idx = <<>>
    /\ wpc = <<>>
    /\ npm_package = <<>>
    /\ lock = 0
    /\ detail_outcome = <<>>
    /\ attempt_log = <<>>
    /\ pacing = <<>>
    /\ results = <<>>
    /\ appended = <<>>

NoCall ==
    /\ mr_pc = "idle"
    /\ mr_attempt = 0
    /\ mr_statuses = <<>>
    /\ mr_sleeps = <<>>
    /\ mr_events = <<>>
    /\ mr_response = "pending"

\* the sort keys runs are started with: the default, a sorting key and an
\* unrecognized one (SortSpec tries sort_results on every key)
RunSortKeys == {"relevance", "size", "name"}

Init ==
    /\ threads \in 1..MaxThreads
    /\ max_pages \in 0..MaxPages
    /\ sort_by \in RunSortKeys
    /\ Fresh
    /\ NoCall

Next ==
    \/ StartRun
    \/ SearchPage
    \/ LoopExhausted
    \/ Distribute
    \/ \E c \in DOMAIN chunk_state : StartChunk(c)
    \/ \E c \in DOMAIN chunk_state : Enrich(c)
    \/ \E c \in DOMAIN chunk_state : EnrichRaises(c)
    \/ \E c \in DOMAIN chunk_state : AcquireLock(c)
    \/ \E c \in DOMAIN chunk_state : AppendResult(c)
    \/ JoinWorkers
    \/ SortResults

Spec == Init /\ [][Next]_vars

\* -- one make_request call, entered with attempt = 0 ------------------------
FetchInit ==
    /\ threads = 1
    /\ max_pages = 1
    /\ sort_by = "relevance"
    /\ Fresh
    /\ mr_pc = "loop"
    /\ mr_attempt = 0
    /\ mr_statuses = <<>>
    /\ mr_sleeps = <<>>
    /\ mr_events = <<>>
    /\ mr_response = "pending"

FetchNext == MR_Attempt \/ MR_Exhausted

FetchSpec == FetchInit /\ [][FetchNext]_vars

\* -- sort_results applied to a result store ---------------------------------
\* field values of the entities sort_results is tried on
SortPool ==
    { [id |-> 0, name |-> "a", size |-> 10, files |-> 1, downloads_weekly |-> 5,
       dependents |-> 1, last_publish |-> <<9>>],
      [id |-> 0, name |-> "b", size |-> 50, files |-> 1, downloads_weekly |-> 5,
       dependents |-> 0, last_publish |-> <<1, 0>>],
      [id |-> 0, name |-> "c", size |-> 30, files |-> 0, downloads_weekly |-> 7,
       dependents |-> 1, last_publish |-> <<>>],
      [id |-> 0, name |-> "", size |-> 10, files |-> 0, downloads_weekly |-> 7,
       dependents |-> 0, last_publish |-> <<9>>] }

\* result stores: id is the position the entity was appended at
SortInputs ==
    { [i \in DOMAIN s |-> [s[i] EXCEPT !.id = i]] : s \in SeqsUpTo(SortPool, MaxSortLen) }

SortInit ==
    /\ threads = 1
    /\ max_pages = 1
    /\ sort_by \in SortKeys
    /\ calls = 1
    /\ pc = "AGGREGATING"
    /\ error = "none"
    /\ page = 1
    /\ all_packages = <<>>
    /\ fetched = <<>>
    /\ page_results = <<>>
    /\ tasks = <<>>
    /\ task_chunks = <<>>
    /\ chunk_state = <<>>
    /\ idx = <<>>
    /\ wpc = <<>>
    /\ npm_package = <<>>
    /\ lock = 0
    /\ detail_outcome = <<>>
    /\ attempt_log = <<>>
    /\ pacing = <<>>
    /\ results \in SortInputs
    /\ appended = <<>>
    /\ NoCall

SortNext == SortResults

SortSpec == SortInit /\ [][SortNext]_vars

\* -- a run from the end of discovery on -------------------------------------
\* discovery found one page of up to MaxPoolTasks packages under a page limit of 1
PoolInit ==
    /\ threads \in 1..MaxPoolThreads
    /\ max_pages = 1
    /\ sort_by = "relevance"
    /\ calls = 1
    /\ pc = "DISTRIBUTE"
    /\ error = "none"
    /\ page = 1
    /\ all_packages \in { [i \in DOMAIN s |-> package_info(s[i])] :
                             s \in SeqsUpTo(SourcePackages, MaxPoolTasks) }
    /\ fetched = <<1>>
    /\ page_results = <<all_packages>>
    /\ tasks = <<>>
    /\ task_chunks = <<>>
    /\ chunk_state = <<>>
    /\ idx = <<>>
    /\ wpc = <<>>
    /\ npm_package = <<>>
    /\ lock = 0
    /\ detail_outcome = <<>>
    /\ attempt_log = <<>>
    /\ pacing = <<>>
    /\ results = <<>>
    /\ appended = <<>>
    /\ NoCall

PoolNext ==
    \/ Distribute
    \/ \E c \in DOMAIN chunk_state : StartChunk(c)
    \/ \E c \in DOMAIN chunk_state : Enrich(c)
    \/ \E c \in DOMAIN chunk_state : EnrichRaises(c)
    \/ \E c \in DOMAIN chunk_state : AcquireLock(c)
    \/ \E c \in DOMAIN chunk_state : AppendResult(c)
    \/ JoinWorkers
    \/ SortResults

PoolSpec == PoolInit /\ [][PoolNext]_vars

\* -- two calls on one object ------------------------------------------------
\* a one-worker scraper whose search_and_enrich is called with max_pages = 1
RerunInit ==
    /\ threads = 1
    /\ max_pages = 1
    /\ sort_by = "relevance"
    /\ Fresh
    /\ NoCall

RerunNext ==
    \/ Next
    \/ CallAgain

RerunSpec == RerunInit /\ [][RerunNext]_vars

\* ==========================================================================
\* claims
\* ==========================================================================
Distributed == pc \in {"ENRICHING", "AGGREGATING", "DONE"}
TaskIds(ts) == {ts[i].id : i \in DOMAIN ts}
Recognized == {"size", "date", "downloads", "dependents"}

\* C1: for every task count N >= 0 and worker count W >= 1 the partition step
\* raises no error, and the groups it produces hold every task exactly once,
\* their concatenation being the full task list.
C1_PartitionComplete ==
    /\ error # "ValueError"
    /\ Distributed =>
          /\ Flatten(task_chunks) = tasks
          /\ \A t \in DOMAIN tasks :
                Cardinality({<<c, i>> \in (DOMAIN task_chunks) \X (1..Len(tasks)) :
                                i \in DOMAIN task_chunks[c] /\ task_chunks[c][i].id = t}) = 1

\* C2: a run with a positive page limit always completes: no exception leaves
\* search_and_enrich, and the run stops nowhere but in DONE.
C2_RunCompletes ==
    max_pages >= 1 => (pc # "RAISED" /\ (pc = "DONE" \/ ENABLED Next))

\* a status make_request reaches its else branch with
IsTerminalStatus(st) == st \notin {STATUS_OK, STATUS_RATE_LIMITED, TransportError}

\* C3: a status that is neither 200 nor 429 ends the make_request call: the
\* attempt that received it is the call's last request and the call returns None.
C3_TerminalStatusNotRetried ==
    \A i \in DOMAIN mr_statuses :
        IsTerminalStatus(mr_statuses[i]) =>
            (i = Len(mr_statuses) /\ mr_response # "response")

\* C4: with sort key relevance, or an unrecognized key, the returned sequence
\* lists the entities in discovery order, whatever the workers' interleaving.
C4_RelevanceKeepsDiscoveryOrder ==
    (pc = "DONE" /\ sort_by \notin Recognized) =>
        \A i, j \in DOMAIN results : i < j => results[i].id < results[j].id

\* C5: in every state of a run on a fresh scraper the result store holds at most
\* one entity per discovered task and only entities of discovered tasks, so it
\* never holds more entities than tasks were discovered.
C5_NoFabricationNoDuplication ==
    /\ \A i \in DOMAIN results :
          /\ results[i].id \in TaskIds(tasks)
          /\ results[i].name = tasks[results[i].id].package.name
    /\ \A i, j \in DOMAIN results : i # j => results[i].id # results[j].id
    /\ Len(results) <= Len(all_packages)

\* a run completed with a task lost to an error and another enriched
C5_Witness ==
    /\ pc = "DONE"
    /\ Len(tasks) = 2
    /\ Len(results) = 1
    /\ threads = 2

\* C6: pages are fetched in the order 1, 2, ...; no page is fetched after the
\* first one that yields no result; once discovery is over the task list is the
\* concatenation of the pages before that one, and when no page was empty
\* exactly the pages 1..max_pages were fetched.
C6_DiscoveryHaltsAtFirstEmptyPage ==
    LET n == Len(fetched) IN
    /\ fetched = [i \in 1..n |-> i]
    /\ Len(page_results) = n
    /\ n <= max_pages
    /\ \A i \in 1..n : page_results[i] = <<>> => i = n
    /\ pc \notin {"INIT", "DISCOVERING"} =>
          IF n > 0 /\ page_results[n] = <<>>
          THEN all_packages = Flatten(SubSeq(page_results, 1, n - 1))
          ELSE n = max_pages /\ all_packages = Flatten(page_results)

\* a completed run whose page 1 had results and whose page 2 was empty, under
\* a page limit of 3: page 3 was never fetched
C6_Witness ==
    /\ pc = "DONE"
    /\ max_pages = 3
    /\ Len(fetched) = 2
    /\ page_results[1] # <<>>
    /\ page_results[2] = <<>>

\* C7: a make_request call whose first k < MAX_RETRIES requests receive 429 and
\* whose next request receives 200 returns the response, having slept
\* BIG_SLEEP * 1, ..., BIG_SLEEP * k, a strictly increasing sequence.
C7_RateLimitRetrySucceeds ==
    LET n == Len(mr_statuses) IN
    (/\ n >= 1
     /\ mr_statuses[n] = STATUS_OK
     /\ \A i \in 1..(n - 1) : mr_statuses[i] = STATUS_RATE_LIMITED) =>
        /\ mr_pc = "returned"
        /\ mr_response = "response"
        /\ mr_sleeps = [i \in 1..(n - 1) |-> BIG_SLEEP * i]
        /\ \A i, j \in DOMAIN mr_sleeps : i < j => mr_sleeps[i] < mr_sleeps[j]

C7_Witness ==
    /\ mr_statuses = <<STATUS_RATE_LIMITED, STATUS_RATE_LIMITED, STATUS_OK>>
    /\ mr_response = "response"

\* C8: a task whose get_package_details returned None does not abort the run,
\* and the completed run returns exactly one entity for it, holding the fields
\* of its search result with size 0 and file count 0.
C8_FailedDetailStillYieldsEntity ==
    \A t \in DOMAIN detail_outcome :
        detail_outcome[t] = "none" =>
            /\ pc # "RAISED"
            /\ pc = "DONE" =>
                  /\ Cardinality({i \in DOMAIN results : results[i].id = t}) = 1
                  /\ \A i \in DOMAIN results :
                        results[i].id = t =>
                            /\ results[i].size = 0
                            /\ results[i].files = 0
                            /\ results[i].name = tasks[t].package.name
                            /\ results[i].downloads_weekly = tasks[t].package.downloads_weekly
                            /\ results[i].dependents = tasks[t].package.dependents
                            /\ results[i].last_publish = tasks[t].package.last_publish

C8_Witness ==
    /\ pc = "DONE"
    /\ \E t \in DOMAIN detail_outcome : detail_outcome[t] = "none"
    /\ \E t \in DOMAIN detail_outcome : detail_outcome[t] = "details"

\* key(x) >= key(y) for the field sort_by names
KeyOrdered(x, y, key) ==
    CASE key = "size" -> x.size >= y.size
      [] key = "date" -> ~LexLess(x.last_publish, y.last_publish)
      [] key = "downloads" -> x.downloads_weekly >= y.downloads_weekly
      [] key = "dependents" -> x.dependents >= y.dependents

\* where the entity e stands in the store s
PositionIn(s, e) == CHOOSE i \in DOMAIN s : s[i] = e

\* C9: sort_results leaves a permutation of the result store; for the keys
\* size, date, downloads and dependents it is in non-increasing order of the
\* field and entities of equal key keep their prior order; for relevance and
\* any unrecognized key the store is unchanged.
C9_SortResults ==
    pc = "DONE" =>
        /\ Len(results) = Len(appended)
        /\ \A i \in DOMAIN appended : \E j \in DOMAIN results : results[j] = appended[i]
        /\ sort_by \in Recognized =>
              \A i, j \in DOMAIN results :
                  i < j =>
                      /\ KeyOrdered(results[i], results[j], sort_by)
                      /\ KeyOrdered(results[j], results[i], sort_by) =>
                            PositionIn(appended, results[i]) < PositionIn(appended, results[j])
        /\ sort_by \notin Recognized => results = appended

\* sizes 10, 50, 10 sorted by size: 50 first, the two 10s in their prior order
C9_Witness ==
    /\ pc = "DONE"
    /\ sort_by = "size"
    /\ [i \in DOMAIN appended |-> appended[i].size] = <<10, 50, 10>>
    /\ [i \in DOMAIN results |-> results[i].id] = <<2, 1, 3>>

\* C10: every entity in the result store has a non-empty name.
C10_IdentifierNonEmpty ==
    \A i \in DOMAIN results : results[i].name # ""

\* the number of requests among the first i events of the call
RequestsUpTo(i) == Cardinality({k \in 1..i : mr_events[k] = "request"})

\* C16: within one make_request call every sleep a 429 response causes is
\* followed by another request; a call that used up its attempts returns None
\* without a sleep after its final attempt.
C16_BackoffSleepFollowedByRetry ==
    mr_pc = "returned" =>
        \A i \in DOMAIN mr_events :
            (mr_events[i] = "sleep" /\ mr_statuses[RequestsUpTo(i)] = STATUS_RATE_LIMITED) =>
                (i < Len(mr_events) /\ mr_events[i + 1] = "request")

\* C17: a call whose every attempt raises a transport error issues exactly
\* MAX_RETRIES requests, sleeps MEDIUM_SLEEP * attempt number between
\* consecutive attempts and returns None; whatever the responses, a call issues
\* at most MAX_RETRIES requests and returns a response only on a 200.
C17_TransportErrorsRetried ==
    /\ Len(mr_statuses) <= MAX_RETRIES
    /\ RequestsUpTo(Len(mr_events)) = Len(mr_statuses)
    /\ mr_response = "response" =>
          (mr_statuses # <<>> /\ mr_statuses[Len(mr_statuses)] = STATUS_OK)
    /\ (mr_pc = "returned" /\ \A i \in DOMAIN mr_statuses : mr_statuses[i] = TransportError) =>
          /\ Len(mr_statuses) = MAX_RETRIES
          /\ mr_response = "none"
          /\ mr_sleeps = [i \in 1..(MAX_RETRIES - 1) |-> MEDIUM_SLEEP * i]
          /\ mr_events = [i \in 1..(2 * MAX_RETRIES - 1) |->
                             IF i % 2 = 1 THEN "request" ELSE "sleep"]

C17_Witness ==
    /\ mr_pc = "returned"
    /\ mr_statuses = [i \in 1..MAX_RETRIES |-> TransportError]

\* C12: the completed run returns no two entities with the same name, also
\* when the source lists a package on more than one page.
C12_IdentifiersUnique ==
    pc = "DONE" =>
        \A i, j \in DOMAIN results : i # j => results[i].name # results[j].name

\* the workers inside `with self.lock:`
InAppend == {c \in DOMAIN wpc : wpc[c] = "append"}
\* the tasks whose entity was built, and those whose worker has not appended it yet
Built == {t \in DOMAIN detail_outcome : detail_outcome[t] \in {"none", "details"}}
AwaitingAppend == {c \in DOMAIN wpc : wpc[c] \in {"lock", "append"}}

\* C13: no two workers are inside the append to self.results at once, the
\* worker inside it is the one holding the lock, and no append is lost: the
\* store holds one entry per append performed.
C13_AppendsMutuallyExclusive ==
    /\ Cardinality(InAppend) <= 1
    /\ \A c \in DOMAIN wpc : wpc[c] = "append" <=> lock = c
    /\ lock # 0 => lock \in InAppend
    /\ Len(results) = Cardinality(Built) - Cardinality(AwaitingAppend)
    /\ pc \in {"AGGREGATING", "DONE"} => Len(results) = Cardinality(Built)

\* one worker inside the append while another waits for the lock
C13_Witness ==
    \E c, d \in DOMAIN wpc :
        /\ wpc[c] = "append"
        /\ wpc[d] = "lock"
        /\ chunk_state[d] = "running"

\* the steps of the coordinator's phase
PhaseSteps ==
    { <<"INIT", "DISCOVERING">>, <<"DISCOVERING", "DISTRIBUTE">>,
      <<"DISTRIBUTE", "ENRICHING">>, <<"DISTRIBUTE", "RAISED">>,
      <<"ENRICHING", "AGGREGATING">>, <<"AGGREGATING", "DONE">> }

\* C14: the phases follow INIT, DISCOVERING, ENRICHING, AGGREGATING, DONE; no
\* worker exists, let alone starts a task, before discovery is over; sort_results
\* runs only once every submitted worker has finished, and from then on no
\* entity is appended to the store.
C14_PhaseOrdering ==
    /\ [](/\ pc \in {"INIT", "DISCOVERING", "DISTRIBUTE"} =>
                (chunk_state = <<>> /\ attempt_log = <<>> /\ results = <<>>)
          /\ pc \in {"AGGREGATING", "DONE"} =>
                \A c \in DOMAIN chunk_state : chunk_state[c] = "done")
    /\ [][/\ pc' # pc => <<pc, pc'>> \in PhaseSteps
          /\ pc \in {"AGGREGATING", "DONE"} => Len(results') = Len(results)]_vars

\* a run of two concurrent workers went through every phase
C14_Witness ==
    /\ pc = "DONE"
    /\ Len(task_chunks) = 2
    /\ Len(appended) = 2

\* the ids of the tasks of chunk c, in group order
ChunkIds(c) == [i \in DOMAIN task_chunks[c] |-> task_chunks[c][i].id]

\* C15: a worker attempts the tasks of its group one at a time, in group
\* order, each once, also after a task of the group raised; the pacing sleep
\* is taken after every task, failed or not; a finished worker attempted all.
C15_WorkerSequentialDespiteFailures ==
    \A c \in DOMAIN task_chunks :
        /\ Len(attempt_log[c]) <= Len(task_chunks[c])
        /\ attempt_log[c] = SubSeq(ChunkIds(c), 1, Len(attempt_log[c]))
        /\ pacing[c] = Len(attempt_log[c]) - (IF c \in AwaitingAppend THEN 1 ELSE 0)
        /\ chunk_state[c] = "queued" => attempt_log[c] = <<>>
        /\ chunk_state[c] = "done" =>
              (attempt_log[c] = ChunkIds(c) /\ pacing[c] = Len(task_chunks[c]))

\* a worker finished a group of two whose first task raised
C15_Witness ==
    \E c \in DOMAIN task_chunks :
        /\ chunk_state[c] = "done"
        /\ Len(task_chunks[c]) = 2
        /\ detail_outcome[task_chunks[c][1].id] = "raised"
        /\ detail_outcome[task_chunks[c][2].id] = "details"

\* C19: a run with max_pages = 0 fetches no page and completes with an empty
\* result: no exception leaves it and it stops nowhere but in DONE.
C19_ZeroPagesCompletes ==
    max_pages = 0 =>
        /\ fetched = <<>>
        /\ pc # "RAISED"
        /\ pc = "DONE" \/ ENABLED Next
        /\ pc = "DONE" => results = <<>>

\* C11: the tasks are partitioned into exactly self.threads contiguous
\* groups, each of N div W tasks, the N mod W remaining tasks going to the last
\* group; so there are never more groups than workers.
C11_ExactlyWorkerCountGroups ==
    Distributed =>
        /\ Len(task_chunks) = threads
        /\ Flatten(task_chunks) = tasks
        /\ \A c \in 1..threads :
              Len(task_chunks[c]) =
                  IF c < threads THEN Len(tasks) \div threads
                  ELSE (Len(tasks) \div threads) + (Len(tasks) % threads)

\* C18: never more than self.threads workers execute at once, also when the
\* partition step produced more groups than that.
C18_BoundedConcurrency ==
    Cardinality(Running) <= threads

\* more groups than workers: the pool is full and a group waits
C18_Witness ==
    /\ Len(task_chunks) > threads
    /\ Cardinality(Running) = threads
    /\ \E c \in DOMAIN chunk_state : chunk_state[c] = "queued"

\* C20: the result store is per run: a call of search_and_enrich on an object
\* that already completed a run returns only entities of the tasks this call
\* discovered, so no more entities than this call's tasks.
C20_StorePerRun ==
    (calls > 1 /\ pc = "DONE") => Len(results) <= Len(tasks)

====
